---- MODULE Spec2Model ----
(***************************************************************************)
(* Nebula Notes (pinank0301/notes-app): the note store of App.tsx, the     *)
(* edit buffer, debounced save and AI actions of components/Editor.tsx,    *)
(* and the Text Service wrappers of services/gemini.ts.                    *)
(*                                                                         *)
(* A string is a sequence of text chunks.  Typed input and service         *)
(* responses are sequences of one-character chunks; the literals of the    *)
(* source (seed note, default title, summary header) are kept as chunks    *)
(* holding the literal text.  Whitespace chunks are " " and "\n".          *)
(*                                                                         *)
(* One action is one event-loop task: a DOM event handler, a timer         *)
(* callback or a promise continuation, together with the React re-render   *)
(* and the effects (sync, debounce, persist) that the render schedules.    *)
(***************************************************************************)
EXTENDS Integers, Sequences, FiniteSets, TLC

VARIABLES
    apiKey,         \* process.env.API_KEY is set (gemini.ts:5)
    saved,          \* what localStorage.getItem returned at startup (App.tsx:21)
    crashed,        \* App's first render threw: nothing is rendered, no handler exists
    now,            \* Date.now(), in ms since the page was opened
    notes,          \* App state `notes` (App.tsx:20)
    activeNoteId,   \* App state `activeNoteId` (App.tsx:25)
    storage,        \* localStorage['nebula-notes']
    nextUuid,       \* number of the next uuidv4() result
    mounted,        \* an Editor instance is rendered (App.tsx:80)
    title,          \* Editor state (Editor.tsx:13)
    content,        \* Editor state (Editor.tsx:14)
    tags,           \* Editor state (Editor.tsx:15)
    isProcessingAI, \* Editor state (Editor.tsx:16)
    selStart,       \* contentRef.current.selectionStart
    selEnd,         \* contentRef.current.selectionEnd
    timer,          \* the pending setTimeout of the debounce effect, with its closure
    calls,          \* Text Service calls in flight, each with handleAIAction's closure
    aiCount,        \* handleAIAction runs started so far
    focus,          \* "titleButton": the auto-title button holds the keyboard focus under
                    \* the loading overlay
    lastOp,         \* label of the last handler that ran (observation only)
    epoch,          \* parity of the buffer and selection changes so far (observation only)
    probe           \* input/output of a single service-wrapper call (ServiceSpec only)

vars == <<apiKey, saved, crashed, now, notes, activeNoteId, storage, nextUuid, mounted, title,
          content, tags, isProcessingAI, selStart, selEnd, timer, calls, aiCount, focus,
          lastOp, epoch, probe>>

appVars    == <<notes, activeNoteId, storage, nextUuid>>
bufferVars == <<title, content, tags>>
editorVars == <<mounted, title, content, tags, isProcessingAI, selStart, selEnd, timer>>

----------------------------------------------------------------------------
(* Bounds of the model *)

MaxNotes == 2       \* notes in the collection
MaxUuids == 1       \* notes created in one session
MaxTime == 1000     \* latest time of a user or service event
MaxBurst == 2       \* edits the user makes in one burst
MaxInFlight == 2    \* Text Service calls in flight at once
MaxAICalls == 1     \* AI actions started by a click in one session
MaxSel == 1         \* largest selection offset the user picks
MaxContentLen == 2  \* longest content a transform is started on

(* Program constants *)

DEBOUNCE_MS == 1000

NULL == 0
NoTimer == [due |-> -1]
NoText == <<"<undefined>">>
NoProbe == [fn |-> "none"]

TickSteps == {DEBOUNCE_MS}

----------------------------------------------------------------------------
(* Strings *)

WS == {" ", "\n"}

Min(a, b) == IF a < b THEN a ELSE b
Max(a, b) == IF a < b THEN b ELSE a

RECURSIVE TrimStart(_)
TrimStart(s) ==
    IF s = <<>> THEN <<>>
    ELSE IF Head(s) \in WS THEN TrimStart(Tail(s)) ELSE s

RECURSIVE TrimEnd(_)
TrimEnd(s) ==
    IF s = <<>> THEN <<>>
    ELSE IF s[Len(s)] \in WS THEN TrimEnd(SubSeq(s, 1, Len(s) - 1)) ELSE s

\* String.prototype.trim
Trim(s) == TrimEnd(TrimStart(s))

Clamp(s, i) == Max(0, Min(i, Len(s)))

\* String.prototype.substring(a, b): both offsets clamped, swapped when a > b
Substring(s, a, b) ==
    SubSeq(s, Min(Clamp(s, a), Clamp(s, b)) + 1, Max(Clamp(s, a), Clamp(s, b)))

\* String.prototype.substring(a)
SubstringFrom(s, a) == SubSeq(s, Clamp(s, a) + 1, Len(s))

Range(seq) == {seq[i] : i \in 1..Len(seq)}

JsonEscape(ch) == IF ch = "\"" THEN "\\\"" ELSE IF ch = "\\" THEN "\\\\" ELSE ch

JsonString(s) == <<"\"">> \o [i \in 1..Len(s) |-> JsonEscape(s[i])] \o <<"\"">>

RECURSIVE JsonItems(_)
JsonItems(list) ==
    IF list = <<>> THEN <<>>
    ELSE IF Len(list) = 1 THEN JsonString(list[1])
    ELSE JsonString(list[1]) \o <<",">> \o JsonItems(Tail(list))

\* JSON.stringify of a string[]
JsonStringifyTags(list) == <<"[">> \o JsonItems(list) \o <<"]">>

----------------------------------------------------------------------------
(* Notes (types.ts) and the seed collection (App.tsx:8-17) *)

Note(id, t, c, tg, created, updated) ==
    [id |-> id, title |-> t, content |-> c, tags |-> tg,
     createdAt |-> created, updatedAt |-> updated]

SeedId == 1

\* uuidv4() replaced by a generator that returns an identifier already in use
UuidCollides(k) == SeedId

\* uuidv4(): the k-th identifier of this session; never '1', never generated twice, and
\* never one an earlier session generated (Uuid(0) stands for such a one)
Uuid(k) == SeedId + 1 + k

INITIAL_NOTES ==
    << Note(SeedId,
            <<"Welcome to Nebula Notes">>,
            <<"This is a smart note-taking app powered by Gemini. ", "\n", "\n",
              "Try selecting this text and using the \"AI Tools\" button to summarize or expand it.",
              "\n", "\n",
              "You can also automatically generate tags based on your content.">>,
            << <<"welcome">>, <<"tutorial">> >>,
            0, 0) >>

IdsOf(ns) == {ns[i].id : i \in 1..Len(ns)}

HasNote(ns, id) == \E i \in 1..Len(ns) : ns[i].id = id

\* notes.find(n => n.id === id): the first match
NoteOf(ns, id) == ns[CHOOSE i \in 1..Len(ns) :
                        /\ ns[i].id = id
                        /\ \A j \in 1..(i - 1) : ns[j].id # id]

\* a serializer that writes every tag list as []
SerializeDropTags(ns) ==
    [i \in 1..Len(ns) |->
        <<ns[i].id, JsonString(ns[i].title), JsonString(ns[i].content),
          JsonStringifyTags(<<>>), ns[i].createdAt, ns[i].updatedAt>>]

\* JSON.stringify(notes): one field list per note, in collection order, strings quoted
\* and escaped
Serialize(ns) ==
    [i \in 1..Len(ns) |->
        <<ns[i].id, JsonString(ns[i].title), JsonString(ns[i].content),
          JsonStringifyTags(ns[i].tags), ns[i].createdAt, ns[i].updatedAt>>]

RECURSIVE JsonParseItems(_, _)
\* the strings of a serialized string[] body: text between quotes, unescaped
JsonParseItems(txt, cur) ==
    IF txt = <<>> THEN <<>>
    ELSE IF Head(txt) = "\"" THEN
            IF cur = NoText THEN JsonParseItems(Tail(txt), <<>>)
            ELSE <<cur>> \o JsonParseItems(Tail(txt), NoText)
    ELSE IF cur = NoText THEN JsonParseItems(Tail(txt), NoText)
    ELSE JsonParseItems(Tail(txt),
            Append(cur, IF Head(txt) = "\\\"" THEN "\""
                        ELSE IF Head(txt) = "\\\\" THEN "\\" ELSE Head(txt)))

JsonParseTags(txt) == JsonParseItems(txt, NoText)

JsonParseString(txt) == JsonParseItems(txt, NoText)[1]

\* JSON.parse of a serialized collection
Parse(v) ==
    [i \in 1..Len(v) |->
        Note(v[i][1], JsonParseString(v[i][2]), JsonParseString(v[i][3]),
             JsonParseTags(v[i][4]), v[i][5], v[i][6])]

\* Collections a previous session may have persisted
SavedCollection ==
    << Note(Uuid(0), <<"\"">>, <<"a", "b">>, << <<"x">> >>, 0, 0),
       Note(SeedId, <<>>, <<" ">>, <<>>, 0, 0) >>

\* A persisted value cut off inside its first entry
Truncated == << <<Uuid(0), JsonString(<<"\"">>)>> >>

SavedValues ==
    { [present |-> FALSE, text |-> <<>>],
      [present |-> TRUE, text |-> Serialize(<<>>)],
      [present |-> TRUE, text |-> Serialize(SavedCollection)],
      [present |-> TRUE, text |-> Truncated] }

\* JSON.parse accepts the text: every entry is complete
WellFormed(v) == \A i \in 1..Len(v) : Len(v[i]) = 6

\* the useState initializer throws (App.tsx:22): JSON.parse on a text it rejects
LoadThrows(sv) == sv.present /\ ~WellFormed(sv.text)

\* useState initializer (App.tsx:20-23)
Load(sv) == IF sv.present THEN Parse(sv.text) ELSE INITIAL_NOTES

----------------------------------------------------------------------------
(* Editor: render, sync effect, debounce effect *)

\* lastOp: the handler that ran last.  n: the edits of the burst a timer callback ended;
\* arg: the text in the tag input when Enter was pressed / the value the wrapper returned;
\* flag: the deleted note was the selected one / the selection left unsaved edits behind /
\* the tag list changed / the callback committed / the result came back to another note.
Op(op, n, flag) ==
    [op |-> op, n |-> n, flag |-> flag, act |-> "", alert |-> FALSE, why |-> "",
     arg |-> <<>>]

\* lastOp after a handleAIAction run ended: its action, whether alert() was shown, and
\* why the wrapper ended: "response", "error" (the service rejected) or "local" (the
\* wrapper ended before it called the service)
AiOp(act, stale, alert, why, result) ==
    [op |-> "aiDone", n |-> 0, flag |-> stale, act |-> act, alert |-> alert, why |-> why,
     arg |-> result]

\* The debounce effect's setTimeout (Editor.tsx:31-39): the callback closes over the
\* render's note, title, content, tags and onUpdate, which closes over that render's notes.
\* n counts the buffer changes since the buffer was last synced or committed.
\* carry marks a timer set by a result that brought another note's unsaved buffer along.
Arm(note, t, c, tg, ns, n, carry) ==
    [due |-> now + DEBOUNCE_MS, note |-> note, title |-> t, content |-> c,
     tags |-> tg, notes |-> ns, n |-> n, carry |-> carry]

Bump(n) == IF n < MaxBurst THEN n + 1 ELSE n

BurstOf(tm) == IF tm = NoTimer THEN 0 ELSE tm.n

\* Editor state initializers on mount, then the sync effect, then the debounce effect
\* (Editor.tsx:13-39)
Mount(note, ns) ==
    /\ mounted' = TRUE
    /\ title' = note.title
    /\ content' = note.content
    /\ tags' = note.tags
    /\ isProcessingAI' = FALSE
    /\ selStart' = Len(note.content)
    /\ selEnd' = Len(note.content)
    /\ timer' = Arm(note, note.title, note.content, note.tags, ns, 0, FALSE)
    /\ UNCHANGED calls

\* note.id changed under a mounted Editor: the sync effect replaces the buffer, the
\* debounce effect clears the old timer and sets a new one (Editor.tsx:23-39)
Sync(note, ns) ==
    /\ title' = note.title
    /\ content' = note.content
    /\ tags' = note.tags
    /\ selStart' = Len(note.content)
    /\ selEnd' = Len(note.content)
    /\ timer' = Arm(note, note.title, note.content, note.tags, ns, 0, FALSE)
    /\ UNCHANGED <<mounted, isProcessingAI, calls>>

\* activeNote is undefined: the Editor is not rendered; its state and timer are gone and
\* its in-flight calls resolve into an unmounted component (App.tsx:80-101)
Unmount ==
    /\ mounted' = FALSE
    /\ title' = <<>>
    /\ content' = <<>>
    /\ tags' = <<>>
    /\ isProcessingAI' = FALSE
    /\ selStart' = 0
    /\ selEnd' = 0
    /\ timer' = NoTimer
    /\ calls' = {[c EXCEPT !.live = FALSE] : c \in calls}

\* The Editor after App re-rendered with collection ns and selection id
EditorRender(ns, id) ==
    IF ~HasNote(ns, id) THEN Unmount
    ELSE IF ~mounted THEN Mount(NoteOf(ns, id), ns)
    ELSE IF id # activeNoteId THEN Sync(NoteOf(ns, id), ns)
    ELSE UNCHANGED <<editorVars, calls>>

----------------------------------------------------------------------------
(* App handlers (App.tsx) *)

\* createNote (App.tsx:35-48)
NewNote == Note(Uuid(nextUuid), <<>>, <<>>, <<>>, now, now)

CreateNote ==
    /\ ~crashed
    /\ Len(notes) < MaxNotes
    /\ nextUuid <= MaxUuids
    /\ notes' = <<NewNote>> \o notes
    /\ activeNoteId' = NewNote.id
    /\ nextUuid' = nextUuid + 1
    /\ storage' = Serialize(notes')
    /\ EditorRender(notes', activeNoteId')
    /\ lastOp' = Op("create", 0, FALSE)
    /\ UNCHANGED <<apiKey, saved, crashed, now, aiCount, probe>>

\* onSelectNote = setActiveNoteId, from a row of the list (App.tsx:70, Sidebar.tsx:91-94)
SelectNote(id) ==
    /\ HasNote(notes, id)
    /\ id # activeNoteId
    /\ activeNoteId' = id
    /\ EditorRender(notes, id)
    /\ lastOp' = Op("select", 0, timer # NoTimer /\ timer.n > 0)
    /\ UNCHANGED <<apiKey, saved, crashed, now, notes, storage, nextUuid, aiCount, probe>>

\* deleteNote without the reassignment of App.tsx:58-60
SelectionKept(newNotes, id) == activeNoteId

\* deleteNote dropping the selection on every deletion
SelectionCleared(newNotes, id) == NULL

\* the selection deleteNote leaves (App.tsx:58-60)
SelectionAfterDelete(newNotes, id) ==
    IF activeNoteId = id
    THEN (IF Len(newNotes) > 0 THEN newNotes[1].id ELSE NULL)
    ELSE activeNoteId

\* deleteNote (App.tsx:54-61)
DeleteNote(id) ==
    /\ HasNote(notes, id)
    /\ notes' = SelectSeq(notes, LAMBDA n : n.id # id)
    /\ activeNoteId' = SelectionAfterDelete(notes', id)
    /\ storage' = Serialize(notes')
    /\ EditorRender(notes', activeNoteId')
    /\ lastOp' = Op("delete", 0, activeNoteId = id)
    /\ UNCHANGED <<apiKey, saved, crashed, now, nextUuid, aiCount, probe>>

\* updateNote, as the onUpdate prop of one render: it maps over that render's notes
\* (App.tsx:50-52)
UpdateNote(ns, updatedNote) ==
    [i \in 1..Len(ns) |-> IF ns[i].id = updatedNote.id THEN updatedNote ELSE ns[i]]

----------------------------------------------------------------------------
(* Editor handlers (Editor.tsx) *)

\* The loading overlay covers the Editor while isProcessingAI (Editor.tsx:120-128)
EditorUsable == mounted /\ ~isProcessingAI

\* the user makes at most MaxBurst edits before pausing for the debounce, and does not
\* type while a call of this Editor is in flight
CanEdit == EditorUsable /\ {c \in calls : c.live} = {} /\ BurstOf(timer) < MaxBurst

ActiveNote == NoteOf(notes, activeNoteId)

TitleInputs == {<<>>, <<"\"">>}
ContentInputs == {<<"a", "b">>}
TagInputs == {<<" ">>, <<" ", "x">>}

\* title input onChange (Editor.tsx:191)
SetTitle(t) ==
    /\ CanEdit
    /\ t # title
    /\ title' = t
    /\ timer' = Arm(ActiveNote, t, content, tags, notes, Bump(BurstOf(timer)), FALSE)
    /\ lastOp' = Op("setTitle", 0, FALSE)
    /\ UNCHANGED <<apiKey, saved, crashed, now, appVars, mounted, content, tags, isProcessingAI,
                   selStart, selEnd, calls, aiCount, probe>>

\* textarea onChange (Editor.tsx:223); the caret is left at the end of the text
SetContent(c) ==
    /\ CanEdit
    /\ c # content
    /\ content' = c
    /\ selStart' = Len(c)
    /\ selEnd' = Len(c)
    /\ timer' = Arm(ActiveNote, title, c, tags, notes, Bump(BurstOf(timer)), FALSE)
    /\ lastOp' = Op("setContent", 0, FALSE)
    /\ UNCHANGED <<apiKey, saved, crashed, now, appVars, mounted, title, tags, isProcessingAI,
                   calls, aiCount, probe>>

\* the user selects the non-empty span [s, e) of the textarea
SelectText(s, e) ==
    /\ EditorUsable
    /\ s < e /\ e <= Len(content)
    /\ <<s, e>> # <<selStart, selEnd>>
    /\ selStart' = s
    /\ selEnd' = e
    /\ lastOp' = Op("selectText", 0, FALSE)
    /\ UNCHANGED <<apiKey, saved, crashed, now, appVars, mounted, bufferVars, isProcessingAI,
                   timer, calls, aiCount, probe>>

\* handleTagInput without the trim
TagsAfterInputNoTrim(tg, raw) ==
    IF raw # <<>> /\ raw \notin Range(tg) THEN Append(tg, raw) ELSE tg

\* the tag list handleTagInput leaves on Enter (Editor.tsx:104-112)
TagsAfterInput(tg, raw) ==
    IF Trim(raw) # <<>> /\ Trim(raw) \notin Range(tg) THEN Append(tg, Trim(raw)) ELSE tg

\* handleTagInput on Enter (Editor.tsx:104-112)
HandleTagInput(raw) ==
    /\ CanEdit
    /\ tags' = TagsAfterInput(tags, raw)
    /\ timer' = IF tags' # tags
                THEN Arm(ActiveNote, title, content, tags', notes, Bump(BurstOf(timer)), FALSE)
                ELSE timer
    /\ lastOp' = [Op("tagInput", 0, tags' # tags) EXCEPT !.arg = raw]
    /\ UNCHANGED <<apiKey, saved, crashed, now, appVars, mounted, title, content, isProcessingAI,
                   selStart, selEnd, calls, aiCount, probe>>

\* the tag list removeTag leaves (Editor.tsx:114-116)
TagsAfterRemove(tg, tagToRemove) == SelectSeq(tg, LAMBDA t : t # tagToRemove)

\* removeTag, from the button of a tag chip (Editor.tsx:114-116, 199-205)
RemoveTag(tagToRemove) ==
    /\ CanEdit
    /\ tagToRemove \in Range(tags)
    /\ tags' = TagsAfterRemove(tags, tagToRemove)
    /\ timer' = Arm(ActiveNote, title, content, tags', notes, Bump(BurstOf(timer)), FALSE)
    /\ lastOp' = Op("removeTag", 0, TRUE)
    /\ UNCHANGED <<apiKey, saved, crashed, now, appVars, mounted, title, content, isProcessingAI,
                   selStart, selEnd, calls, aiCount, probe>>

\* the test of the debounce callback with the title left out
DiffersContentOnly(tm) ==
    \/ tm.content # tm.note.content
    \/ JsonStringifyTags(tm.tags) # JsonStringifyTags(tm.note.tags)

\* a debounce callback that calls handleSave without the test
DiffersAlways(tm) == TRUE

\* the test of the debounce callback (Editor.tsx:33)
Differs(tm) ==
    \/ tm.title # tm.note.title
    \/ tm.content # tm.note.content
    \/ JsonStringifyTags(tm.tags) # JsonStringifyTags(tm.note.tags)

\* handleSave without the updatedAt stamp
UpdatedNoteUnstamped(tm) ==
    [tm.note EXCEPT !.title = tm.title, !.content = tm.content, !.tags = tm.tags]

\* handleSave's updatedNote (Editor.tsx:42-48)
UpdatedNote(tm) ==
    [tm.note EXCEPT !.title = tm.title, !.content = tm.content, !.tags = tm.tags,
                    !.updatedAt = now]

\* a debounce callback that never calls handleSave
NotesUntouched(tm) == notes

\* the collection the debounce callback leaves (Editor.tsx:32-36, 41-51)
NotesAfterFire(tm) ==
    IF Differs(tm) THEN UpdateNote(tm.notes, UpdatedNote(tm)) ELSE notes

\* the debounce callback runs (Editor.tsx:32-36)
DebounceFire ==
    /\ timer # NoTimer
    /\ now >= timer.due
    /\ notes' = NotesAfterFire(timer)
    /\ storage' = Serialize(notes')
    /\ timer' = NoTimer
    /\ lastOp' = Op("fire", timer.n, Differs(timer))
    /\ UNCHANGED <<apiKey, saved, crashed, now, activeNoteId, nextUuid, mounted, bufferVars,
                   isProcessingAI, selStart, selEnd, calls, aiCount, probe>>

\* time passes; a due timer callback runs before the clock moves on
Tick(d) ==
    /\ ~crashed
    /\ now + d <= MaxTime \/ timer # NoTimer
    /\ timer = NoTimer \/ now + d <= timer.due
    /\ now' = now + d
    /\ lastOp' = Op("tick", 0, FALSE)
    /\ UNCHANGED <<apiKey, saved, crashed, appVars, editorVars, calls, aiCount, probe>>

----------------------------------------------------------------------------
(* Text Service wrappers (services/gemini.ts) *)

DefaultTitle == <<"Untitled Note">>

SummaryHeader == <<"\n", "\n", "### Summary", "\n">>

Transforms == {"summarize", "fix_grammar", "elaborate"}
Actions == Transforms \cup {"generate_tags", "generate_title"}

\* What ai.models.generateContent does: it rejects, or resolves with response.text
ServiceError == [ok |-> FALSE, text |-> NoText]
Response(text) == [ok |-> TRUE, text |-> text]

Returned(v) == [threw |-> FALSE, value |-> v]
Threw == [threw |-> TRUE, value |-> NoText]

\* text is falsy: undefined or ""
Falsy(text) == text = NoText \/ text = <<>>

\* JSON.parse of a response: the array a well-formed text holds, a throw otherwise (under
\* the responseSchema of gemini.ts:37-43 a response is an array of strings or broken text)
JsonParseArray(text) ==
    IF text = JsonStringifyTags(JsonParseTags(text)) THEN Returned(JsonParseTags(text))
    ELSE Threw

\* generateNoteTitle (gemini.ts:15-28); key: getAIClient finds the API key
generateNoteTitle(c, key, outcome) ==
    IF Trim(c) = <<>> THEN Returned(DefaultTitle)
    ELSE IF ~key THEN Returned(DefaultTitle)
    ELSE IF ~outcome.ok THEN Returned(DefaultTitle)
    ELSE IF outcome.text = NoText \/ Falsy(Trim(outcome.text)) THEN Returned(DefaultTitle)
    ELSE Returned(Trim(outcome.text))

\* generateNoteTags without its try/catch
generateNoteTagsNoCatch(c, key, outcome) ==
    IF Trim(c) = <<>> THEN Returned(<<>>)
    ELSE IF ~key THEN Threw
    ELSE IF ~outcome.ok THEN Threw
    ELSE IF Falsy(outcome.text) THEN Returned(<<>>)
    ELSE JsonParseArray(outcome.text)

\* generateNoteTags (gemini.ts:30-53)
generateNoteTags(c, key, outcome) ==
    IF Trim(c) = <<>> THEN Returned(<<>>)
    ELSE IF ~key THEN Returned(<<>>)
    ELSE IF ~outcome.ok THEN Returned(<<>>)
    ELSE IF Falsy(outcome.text) THEN Returned(<<>>)
    ELSE IF JsonParseArray(outcome.text).threw THEN Returned(<<>>)
    ELSE JsonParseArray(outcome.text)

\* textToProcess (gemini.ts:57)
TextToProcess(c, selectedText) == IF selectedText # <<>> THEN selectedText ELSE c

\* processAIAction swallowing a service error the way the title wrapper does
processAIActionSwallow(action, c, selectedText, key, outcome) ==
    IF ~key THEN Threw
    ELSE IF Trim(TextToProcess(c, selectedText)) = <<>> THEN Threw
    ELSE IF action \notin Transforms THEN Threw
    ELSE Returned(IF ~outcome.ok \/ Falsy(outcome.text) THEN <<>> ELSE outcome.text)

\* processAIAction (gemini.ts:55-87)
processAIAction(action, c, selectedText, key, outcome) ==
    IF ~key THEN Threw
    ELSE IF Trim(TextToProcess(c, selectedText)) = <<>> THEN Threw
    ELSE IF action \notin Transforms THEN Threw
    ELSE IF ~outcome.ok THEN Threw
    ELSE Returned(IF Falsy(outcome.text) THEN <<>> ELSE outcome.text)

\* the wrapper handleAIAction awaits for the action (Editor.tsx:58-81)
ServiceCall(action, c, selectedText, key, outcome) ==
    IF action = "generate_tags" THEN generateNoteTags(c, key, outcome)
    ELSE IF action = "generate_title" THEN generateNoteTitle(c, key, outcome)
    ELSE processAIAction(action, c, selectedText, key, outcome)

\* the wrapper gets as far as awaiting ai.models.generateContent
ReachesService(action, c, selectedText, key) ==
    /\ key
    /\ IF action \in Transforms THEN Trim(TextToProcess(c, selectedText)) # <<>>
       ELSE Trim(c) # <<>>

TitleTexts == {NoText, <<" ">>, <<"G", " ">>}
TagTexts == {NoText, <<"o", "o", "p", "s">>, JsonStringifyTags(<<>>),
             JsonStringifyTags(<< <<"x">>, <<"\\">>, <<"\\">> >>)}
TransformTexts == {NoText, <<"r">>}

\* the ways a call that reached the service can end
Outcomes(action) ==
    {ServiceError} \cup
    {Response(t) : t \in (IF action = "generate_title" THEN TitleTexts
                          ELSE IF action = "generate_tags" THEN TagTexts
                          ELSE TransformTexts)}

----------------------------------------------------------------------------
(* handleAIAction (Editor.tsx:53-102) *)

\* the merge of Editor.tsx:62 without the Set
DedupNone(list) == list

RECURSIVE Dedup(_)
\* Array.from(new Set(list)): first occurrences, in order
Dedup(list) ==
    IF list = <<>> THEN <<>>
    ELSE <<Head(list)>> \o Dedup(SelectSeq(Tail(list), LAMBDA t : t # Head(list)))

\* selectedText, read when the action starts (Editor.tsx:70-79)
SelectedText == IF selStart # selEnd THEN Substring(content, selStart, selEnd) ELSE <<>>

\* what the running handleAIAction holds: the render's content and tags, selectedText with
\* the start and end it was read at (Editor.tsx:74-75), the note its Editor showed,
\* whether that Editor is still mounted, and how many runs were waiting when it started
Call(action) ==
    [live |-> TRUE, noteId |-> activeNoteId, action |-> action, content |-> content,
     tags |-> tags, selected |-> IF action \in Transforms THEN SelectedText ELSE <<>>,
     start |-> selStart, end |-> selEnd, seq |-> Cardinality(calls)]

\* the tag list after generate_tags returned (Editor.tsx:59-64)
TagsAfterAI(call, ret) ==
    IF call.action = "generate_tags" /\ ~ret.threw /\ Len(ret.value) > 0
    THEN Dedup(call.tags \o ret.value)
    ELSE tags

\* a generate_title branch that keeps the buffer title when the default comes back
TitleAfterAIKeepOnDefault(call, ret) ==
    IF call.action = "generate_title" /\ ~ret.threw /\ ret.value # DefaultTitle
    THEN ret.value ELSE title

\* the title after generate_title returned (Editor.tsx:65-67)
TitleAfterAI(call, ret) ==
    IF call.action = "generate_title" /\ ~ret.threw THEN ret.value ELSE title

\* the content after a transform returned (Editor.tsx:81-94): the splice reads the
\* textarea's offsets when the call has returned
ContentAfterAI(call, ret) ==
    IF call.action \notin Transforms \/ ret.threw THEN content
    ELSE IF call.selected # <<>>
    THEN Substring(call.content, 0, selStart) \o ret.value \o SubstringFrom(call.content, selEnd)
    ELSE IF call.action = "summarize" THEN content \o SummaryHeader \o ret.value
    ELSE ret.value

\* the setTags of Editor.tsx:63 always stores a new array
BufferSet(call, ret) ==
    \/ TitleAfterAI(call, ret) # title
    \/ ContentAfterAI(call, ret) # content
    \/ (call.action = "generate_tags" /\ ~ret.threw /\ Len(ret.value) > 0)

\* the result is applied while another note is selected
Stale(call) == call.live /\ call.noteId # activeNoteId

\* the new buffer is built from the buffer the call captured (Editor.tsx:62, 85), and the
\* note that buffer belonged to never got it committed
Carries(call, ret) ==
    /\ Stale(call)
    /\ HasNote(notes, call.noteId)
    /\ ~ret.threw
    /\ \/ /\ call.action = "generate_tags"
          /\ Len(ret.value) > 0
          /\ call.tags # NoteOf(notes, call.noteId).tags
       \/ /\ call.action \in Transforms
          /\ call.selected # <<>>
          /\ call.content # NoteOf(notes, call.noteId).content

\* handleAIAction from its await to its end (Editor.tsx:59-101), with the re-render;
\* the catch block shows the alert
Complete(call, ret, why) ==
    /\ lastOp' = AiOp(call.action, Stale(call), ret.threw, why,
                      IF ret.threw THEN <<>> ELSE ret.value)
    /\ IF call.live
       THEN /\ title' = TitleAfterAI(call, ret)
            /\ content' = ContentAfterAI(call, ret)
            /\ tags' = TagsAfterAI(call, ret)
            /\ isProcessingAI' = FALSE
            /\ selStart' = IF content' # content THEN Len(content') ELSE selStart
            /\ selEnd' = IF content' # content THEN Len(content') ELSE selEnd
            /\ timer' = IF BufferSet(call, ret)
                        THEN Arm(ActiveNote, title', content', tags', notes,
                                 Min(BurstOf(timer) + 1, MaxBurst), Carries(call, ret))
                        ELSE timer
            /\ UNCHANGED mounted
       ELSE UNCHANGED editorVars

\* handleAIAction up to its await (Editor.tsx:53-81); a run that never reaches the service
\* goes on to its end in the same task
StartAI(action) ==
    /\ Cardinality(calls) < MaxInFlight
    /\ action \in Transforms => Len(content) <= MaxContentLen
    /\ IF ReachesService(action, content, Call(action).selected, apiKey)
       THEN /\ calls' = calls \cup {Call(action)}
            /\ isProcessingAI' = TRUE
            /\ lastOp' = [Op("aiStart", 0, FALSE) EXCEPT !.act = action]
            /\ UNCHANGED <<mounted, bufferVars, selStart, selEnd, timer>>
       ELSE /\ Complete(Call(action),
                        ServiceCall(action, content, Call(action).selected, apiKey,
                                    ServiceError),
                        "local")
            /\ UNCHANGED calls
    /\ UNCHANGED <<apiKey, saved, crashed, now, appVars, probe>>

\* a click on the auto-title button or on an AI-tools menu item (Editor.tsx:144, 164-179)
AIInvoke(action) ==
    /\ EditorUsable
    /\ aiCount < MaxAICalls
    /\ aiCount' = aiCount + 1
    /\ StartAI(action)

\* handleAIAction has no test of isProcessingAI and the buttons are never disabled: Enter
\* or Space on the auto-title button, which kept the keyboard focus of the click, runs its
\* onClick again under the loading overlay (Editor.tsx:53-54, 143-149)
AIKeyPress ==
    /\ mounted
    /\ isProcessingAI
    /\ focus = "titleButton"
    /\ StartAI("generate_title")
    /\ UNCHANGED aiCount

\* the Text Service call of `call` ends with `outcome`
AIResolve(call, outcome) ==
    /\ call \in calls
    /\ calls' = calls \ {call}
    /\ Complete(call, ServiceCall(call.action, call.content, call.selected, apiKey, outcome),
                IF outcome.ok THEN "response" ELSE "error")
    /\ UNCHANGED <<apiKey, saved, crashed, now, appVars, aiCount, probe>>

----------------------------------------------------------------------------
(* The service wrappers on their own: one call, every input and outcome *)

ProbeContents == {<<>>, <<" ">>, <<"a", "b">>, <<" ", "a">>}
ProbeSelections == {<<>>, <<" ">>, <<"a">>}

ProbeCall(fn, c, sel, key, outcome) ==
    /\ probe = NoProbe
    /\ probe' = [fn |-> fn, content |-> c, selected |-> sel, key |-> key,
                 outcome |-> outcome, ret |-> ServiceCall(fn, c, sel, key, outcome)]
    /\ UNCHANGED <<apiKey, saved, crashed, now, appVars, editorVars, calls, aiCount, focus,
                   lastOp, epoch>>

ProbeTitle ==
    \E c \in ProbeContents, key \in BOOLEAN, outcome \in Outcomes("generate_title") :
        ProbeCall("generate_title", c, <<>>, key, outcome)

ProbeTags ==
    \E c \in ProbeContents, key \in BOOLEAN, outcome \in Outcomes("generate_tags") :
        ProbeCall("generate_tags", c, <<>>, key, outcome)

ProbeTransform ==
    \E action \in Transforms, c \in ProbeContents, sel \in ProbeSelections, key \in BOOLEAN :
        \E outcome \in Outcomes(action) : ProbeCall(action, c, sel, key, outcome)

----------------------------------------------------------------------------
(* The list filter of the Sidebar (Sidebar.tsx:29-38) on its own.  Here a string is a    *)
(* sequence of characters.                                                               *)

UpperToLower == [A |-> "a", B |-> "b", H |-> "h", L |-> "l", P |-> "p", X |-> "x", Z |-> "z"]

\* String.prototype.toLowerCase
ToLowerCase(str) ==
    [i \in 1..Len(str) |->
        IF str[i] \in DOMAIN UpperToLower THEN UpperToLower[str[i]] ELSE str[i]]

\* String.prototype.includes
Includes(str, q) ==
    \E i \in 0..(Len(str) - Len(q)) : SubSeq(str, i + 1, i + Len(q)) = q

\* the filter comparing without toLowerCase
filteredNotesCaseSensitive(ns, searchQuery) ==
    IF searchQuery = <<>> THEN ns
    ELSE SelectSeq(ns, LAMBDA note :
            \/ Includes(note.title, searchQuery)
            \/ Includes(note.content, searchQuery)
            \/ \E k \in 1..Len(note.tags) : Includes(note.tags[k], searchQuery))

\* filteredNotes (Sidebar.tsx:29-38)
filteredNotes(ns, searchQuery) ==
    IF searchQuery = <<>> THEN ns
    ELSE SelectSeq(ns, LAMBDA note :
            \/ Includes(ToLowerCase(note.title), ToLowerCase(searchQuery))
            \/ Includes(ToLowerCase(note.content), ToLowerCase(searchQuery))
            \/ \E k \in 1..Len(note.tags) :
                    Includes(ToLowerCase(note.tags[k]), ToLowerCase(searchQuery)))

Alpha == Note(SeedId, <<"A", "l", "p", "h", "a">>, <<>>, << <<"x">> >>, 0, 0)
Beta == Note(Uuid(0), <<"B", "e", "t", "a">>,
             <<"a", "l", "p", "h", "a", " ", "i", "n", "s", "i", "d", "e">>, <<>>, 0, 0)
Gamma == Note(Uuid(1), <<>>, <<"z">>, << <<"b">>, <<"A", "L", "P", "H", "A">> >>, 0, 0)

FilterPool == {Alpha, Beta, Gamma}

\* collections of distinct notes from the pool, in every order
FilterCollections ==
    {ns \in UNION {[1..n -> FilterPool] : n \in 0..Cardinality(FilterPool)} :
        \A i \in 1..Len(ns) : \A j \in 1..Len(ns) : i # j => ns[i] # ns[j]}

FilterQueries ==
    { <<>>, <<"a", "l", "p", "h", "a">>, <<"A", "L", "P", "H", "A">>, <<"A", "l", "p", "H", "a">>,
      <<"z", "z", "z">>, <<"X">>, <<"B">>, <<"a", " ", "i">> }

ProbeFilter ==
    \E ns \in FilterCollections, searchQuery \in FilterQueries :
        /\ probe = NoProbe
        /\ probe' = [fn |-> "filter", notes |-> ns, query |-> searchQuery,
                     ret |-> filteredNotes(ns, searchQuery)]
        /\ UNCHANGED <<apiKey, saved, crashed, now, appVars, editorVars, calls, aiCount, focus,
                   lastOp, epoch>>

----------------------------------------------------------------------------

Init ==
    /\ apiKey \in BOOLEAN
    /\ now = 0
    /\ saved \in SavedValues
    /\ crashed = LoadThrows(saved)
    /\ notes = (IF crashed THEN <<>> ELSE Load(saved))
    /\ activeNoteId = (IF Len(notes) > 0 THEN notes[1].id ELSE NULL)
    /\ storage = (IF crashed THEN saved.text ELSE Serialize(notes))
    /\ nextUuid = 1
    /\ mounted = HasNote(notes, activeNoteId)
    /\ title = (IF mounted THEN notes[1].title ELSE <<>>)
    /\ content = (IF mounted THEN notes[1].content ELSE <<>>)
    /\ tags = (IF mounted THEN notes[1].tags ELSE <<>>)
    /\ isProcessingAI = FALSE
    /\ selStart = Len(content)
    /\ selEnd = Len(content)
    /\ timer = (IF mounted
                THEN Arm(notes[1], notes[1].title, notes[1].content, notes[1].tags, notes, 0, FALSE)
                ELSE NoTimer)
    /\ calls = {}
    /\ aiCount = 0
    /\ lastOp = Op(IF crashed THEN "crash" ELSE "load", 0, FALSE)
    /\ focus = "none"
    /\ epoch = 0
    /\ probe = NoProbe

\* a step that edits the buffer, or switches or deletes the selected note
BufferOrSelectionChanges == bufferVars' # bufferVars \/ activeNoteId' # activeNoteId

\* epoch flips on every such step
Turn == epoch' = (IF BufferOrSelectionChanges THEN 1 - epoch ELSE epoch)

\* a click or keystroke elsewhere takes the focus from the auto-title button
Blur == focus' = "none"

\* a click on the auto-title button leaves the focus on it; a menu item is removed with
\* the menu (Editor.tsx:55, 159)
FocusAfterClick ==
    focus' = (IF lastOp'.act = "generate_title" /\ isProcessingAI' THEN "titleButton"
              ELSE "none")

\* the focus stays where it is while the overlay shows
FocusKept == focus' = (IF mounted' /\ isProcessingAI' THEN focus ELSE "none")

\* the user and the Text Service act up to MaxTime; a pending timer still runs after it
InSession == now <= MaxTime

Next ==
    \/ InSession /\ CreateNote /\ Turn /\ Blur
    \/ InSession /\ (\E id \in IdsOf(notes) : SelectNote(id)) /\ Turn /\ Blur
    \/ InSession /\ (\E id \in IdsOf(notes) : DeleteNote(id)) /\ Turn /\ Blur
    \/ InSession /\ (\E t \in TitleInputs : SetTitle(t)) /\ Turn /\ Blur
    \/ InSession /\ (\E c \in ContentInputs : SetContent(c)) /\ Turn /\ Blur
    \/ InSession /\ (\E s \in 0..MaxSel, e \in 0..MaxSel : SelectText(s, e)) /\ Turn /\ Blur
    \/ InSession /\ (\E raw \in TagInputs : HandleTagInput(raw)) /\ Turn /\ Blur
    \/ InSession /\ (\E t \in Range(tags) : RemoveTag(t)) /\ Turn /\ Blur
    \/ InSession /\ (\E action \in Actions : AIInvoke(action)) /\ Turn /\ FocusAfterClick
    \/ InSession /\ AIKeyPress /\ Turn /\ FocusKept
    \/ InSession
            /\ (\E call \in calls : \E outcome \in Outcomes(call.action) : AIResolve(call, outcome))
            /\ Turn /\ FocusKept
    \/ DebounceFire /\ Turn /\ FocusKept
    \/ (\E d \in TickSteps : Tick(d)) /\ Turn /\ FocusKept

Spec == Init /\ [][Next]_vars

\* a session that starts from the saved two-note collection
LiveInit ==
    /\ Init
    /\ saved = [present |-> TRUE, text |-> Serialize(SavedCollection)]

\* The browser runs a timer callback once its delay has passed, and time passes
LiveSpec ==
    /\ LiveInit
    /\ [][Next]_vars
    /\ WF_vars(DebounceFire /\ Turn /\ FocusKept)
    /\ WF_vars((\E d \in TickSteps : Tick(d)) /\ Turn /\ FocusKept)

ServiceInit ==
    /\ apiKey = TRUE
    /\ saved = [present |-> TRUE, text |-> Serialize(<<>>)]
    /\ crashed = FALSE
    /\ now = 0
    /\ notes = <<>>
    /\ activeNoteId = NULL
    /\ storage = Serialize(notes)
    /\ nextUuid = 1
    /\ mounted = FALSE
    /\ title = <<>>
    /\ content = <<>>
    /\ tags = <<>>
    /\ isProcessingAI = FALSE
    /\ selStart = 0
    /\ selEnd = 0
    /\ timer = NoTimer
    /\ calls = {}
    /\ aiCount = 0
    /\ focus = "none"
    /\ lastOp = Op("load", 0, FALSE)
    /\ epoch = 0
    /\ probe = NoProbe

ServiceNext ==
    \/ ProbeTitle
    \/ ProbeTags
    \/ ProbeTransform

ServiceSpec == ServiceInit /\ [][ServiceNext]_vars

FilterNext == ProbeFilter

FilterSpec == ServiceInit /\ [][FilterNext]_vars

----------------------------------------------------------------------------
(* Properties *)

BufferIs(note) == title = note.title /\ content = note.content /\ tags = note.tags

\* the buffer differs from the committed selected note
BufferDirty ==
    \/ title # ActiveNote.title
    \/ content # ActiveNote.content
    \/ tags # ActiveNote.tags

\* no note that stays in the collection is modified by the step
NotesKept ==
    \A i \in 1..Len(notes) : \A j \in 1..Len(notes') :
        notes[i].id = notes'[j].id => notes[i] = notes'[j]

\* C1: deleting the selected note selects the first note of the resulting collection, or
\* nothing when the collection is left empty; deleting another note keeps the selection.
C1_DeleteReassignsSelection ==
    [][lastOp'.op = "delete" =>
        \A id \in IdsOf(notes) \ IdsOf(notes') :
            IF activeNoteId = id
            THEN activeNoteId' = (IF Len(notes') > 0 THEN notes'[1].id ELSE NULL)
            ELSE activeNoteId' = activeNoteId]_vars

C1_Witness ==
    /\ lastOp.op = "delete"
    /\ lastOp.flag
    /\ Len(notes) > 0
    /\ activeNoteId = notes[1].id

AllIds == {SeedId} \cup {Uuid(k) : k \in 0..(MaxUuids + 1)}

\* the identifier has been given to a note, in this session or an earlier one
Allocated(id) == id = SeedId \/ \E k \in 0..(nextUuid - 1) : id = Uuid(k)

\* C2: an identifier that was deleted (given out, and no longer in the collection) is put
\* back by no step, neither into the collection nor into the persisted value.
C2_DeletedStaysDeleted ==
    [][\A id \in AllIds :
        (Allocated(id) /\ ~HasNote(notes, id))
            => (~HasNote(notes', id) /\ ~HasNote(Parse(storage'), id))]_vars

\* when the pending timer was set: the time of the last change of the buffer
LastEditAt(tm) == tm.due - DEBOUNCE_MS

\* the debounce callback runs at the end of a burst of at least one edit
FireAfterEdits == lastOp'.op = "fire" /\ timer # NoTimer /\ timer.n >= 1

\* the step commits the buffer to the selected note, stamped now, a debounce delay or more
\* after the last edit, and commits nothing else
CommitsBuffer ==
    /\ HasNote(notes', activeNoteId)
    /\ NoteOf(notes', activeNoteId).title = title
    /\ NoteOf(notes', activeNoteId).content = content
    /\ NoteOf(notes', activeNoteId).tags = tags
    /\ NoteOf(notes', activeNoteId).updatedAt = now
    /\ now >= LastEditAt(timer) + DEBOUNCE_MS
    /\ notes' # notes
    /\ \A i \in 1..Len(notes) : \A j \in 1..Len(notes') :
        (notes[i].id = notes'[j].id /\ notes[i].id # activeNoteId) => notes[i] = notes'[j]

\* C3 as stated: a burst of N >= 1 edits followed by the debounce delay produces exactly
\* one commit, after the last edit and carrying the buffer as of the last edit.
C3_BurstCommitsOnce ==
    [][FireAfterEdits => (CommitsBuffer /\ timer' = NoTimer)]_vars

\* C3 amended: the burst produces exactly one such commit when the buffer left by the last
\* edit differs from the committed note and no commit when it equals it; no other step
\* commits anything.
C3_BurstCommitsOnceIfDirty ==
    [][/\ FireAfterEdits =>
            /\ IF BufferDirty THEN CommitsBuffer ELSE notes' = notes
            /\ timer' = NoTimer
            /\ UNCHANGED bufferVars
       /\ lastOp'.op # "fire" => NotesKept]_vars

C3_Witness ==
    /\ lastOp.op = "fire"
    /\ lastOp.n = MaxBurst
    /\ lastOp.flag
    /\ mounted
    /\ BufferIs(ActiveNote)
    /\ ActiveNote.updatedAt = now

\* C4: a switch of the selection replaces the buffer by the committed values of the newly
\* selected note, and no later commit writes what came from the buffer left behind.
C4_SwitchDiscardsBuffer ==
    [][/\ (mounted /\ mounted' /\ activeNoteId' # activeNoteId)
            => /\ title' = NoteOf(notes', activeNoteId').title
               /\ content' = NoteOf(notes', activeNoteId').content
               /\ tags' = NoteOf(notes', activeNoteId').tags
       /\ (lastOp'.op = "fire" /\ lastOp'.flag /\ timer # NoTimer) => ~timer.carry]_vars

\* C5: a result that comes back while another note is selected changes neither the buffer
\* nor any committed note.
C5_StaleResultDiscarded ==
    [][(lastOp'.op = "aiDone" /\ lastOp'.flag)
        => (UNCHANGED bufferVars /\ notes' = notes)]_vars

\* C6: a summarize, fix_grammar or elaborate run that fails (the service rejects, or the
\* wrapper has no text to process) shows the alert and leaves buffer, collection and the
\* pending debounce as they were.
C6_FailedTransformLeavesBuffer ==
    [][(lastOp'.op = "aiDone" /\ lastOp'.act \in Transforms /\ lastOp'.why \in {"error", "local"})
        => (lastOp'.alert /\ UNCHANGED <<title, content, tags, notes, storage, timer>>)]_vars

C6_Witness ==
    /\ lastOp.op = "aiDone"
    /\ lastOp.act = "summarize"
    /\ lastOp.why = "error"
    /\ lastOp.alert
    /\ mounted
    /\ Trim(content) # <<>>

\* the wrapper's call did not succeed: blank content, no credential, or the service rejected
ProbeFails == Trim(probe.content) = <<>> \/ ~probe.key \/ ~probe.outcome.ok

\* C7: generate_title and generate_tags never throw; generate_title returns a string, the
\* default title when the content is blank or the call fails; generate_tags returns a
\* list, empty when the content is blank or the call fails.
C7_TitleAndTagsNeverThrow ==
    /\ probe.fn = "generate_title" =>
        /\ ~probe.ret.threw
        /\ probe.ret.value # NoText
        /\ ProbeFails => probe.ret.value = DefaultTitle
    /\ probe.fn = "generate_tags" =>
        /\ ~probe.ret.threw
        /\ probe.ret.value # NoText
        /\ ProbeFails => probe.ret.value = <<>>

C7_Witness ==
    /\ probe.fn = "generate_tags"
    /\ Trim(probe.content) # <<>>
    /\ probe.key
    /\ ~probe.outcome.ok
    /\ probe.ret = Returned(<<>>)

\* C8: without an API credential, every AI action started on non-blank content ends with
\* the error alert.
C8_MissingKeyReported ==
    [][(lastOp'.op = "aiDone" /\ ~apiKey /\ Trim(content) # <<>>) => lastOp'.alert]_vars

\* C9: the identifiers of the collection are pairwise distinct.
C9_IdsDistinct ==
    \A i \in 1..Len(notes) : \A j \in 1..Len(notes) : i # j => notes[i].id # notes[j].id

C9_Witness ==
    /\ lastOp.op = "create"
    /\ Len(notes) = MaxNotes
    /\ HasNote(notes, Uuid(1))

\* C10: the persisted value is the serialization of the current collection, and loading
\* it gives the collection back: same identifiers, same fields, same order.
C10_StorageMirrorsNotes ==
    ~crashed =>
        /\ storage = Serialize(notes)
        /\ Parse(storage) = notes

C10_Witness ==
    /\ lastOp.op = "fire"
    /\ lastOp.flag
    /\ Len(notes) = MaxNotes
    /\ Parse(storage) = notes

\* C11: startup never ends in an error state; from an absent or unparseable persisted
\* value it yields the collection holding the seeded welcome note, selected, and from a
\* parseable one the persisted collection.
C11_LoadNeverFails ==
    lastOp.op \in {"load", "crash"} =>
        /\ ~crashed
        /\ (~saved.present \/ ~WellFormed(saved.text))
                => (notes = INITIAL_NOTES /\ activeNoteId = SeedId)
        /\ (saved.present /\ WellFormed(saved.text)) => notes = Parse(saved.text)

\* C12: a commit changes only the entry it commits: the collection has the same
\* identifiers in the same order right after the debounce callback as right before it,
\* and every entry other than the committed note's is the same.
C12_CommitChangesOneEntry ==
    [][(lastOp'.op = "fire" /\ timer # NoTimer) =>
        /\ Len(notes') = Len(notes)
        /\ \A i \in 1..Len(notes) : notes'[i].id = notes[i].id
        /\ \A i \in 1..Len(notes) : notes[i].id # timer.note.id => notes'[i] = notes[i]]_vars

NoDuplicates(list) ==
    \A i \in 1..Len(list) : \A j \in 1..Len(list) : i # j => list[i] # list[j]

\* C13: neither the buffer's tag list nor the tag list of a committed note holds the same
\* string twice.
C13_TagsDistinct ==
    /\ NoDuplicates(tags)
    /\ \A i \in 1..Len(notes) : NoDuplicates(notes[i].tags)

\* a merge of a response that repeats a tag and names one the buffer already had has
\* been committed
C13_Witness ==
    /\ lastOp.op = "fire"
    /\ lastOp.flag
    /\ mounted
    /\ Len(ActiveNote.tags) = 2
    /\ <<"x">> \in Range(ActiveNote.tags)
    /\ <<"\\">> \in Range(ActiveNote.tags)

\* tags a chip could carry, in either case
TagPool == {<<"x">>, <<"X">>, <<"\\">>, <<"welcome">>, <<"tutorial">>}

\* C14: Enter on an input that trims to nothing or to a tag already in the buffer leaves
\* the tag list, the pending debounce and the collection as they were; any other input is
\* appended, trimmed, at the end of the list.  Removing a tag that is not in the list gives
\* the same list, and a removal commits nothing.
C14_TagInputRules ==
    [][/\ lastOp'.op = "tagInput" =>
            IF Trim(lastOp'.arg) = <<>> \/ Trim(lastOp'.arg) \in Range(tags)
            THEN tags' = tags /\ timer' = timer /\ notes' = notes /\ storage' = storage
            ELSE tags' = Append(tags, Trim(lastOp'.arg))
       /\ \A t \in TagPool : t \notin Range(tags) => TagsAfterRemove(tags, t) = tags
       /\ lastOp'.op = "removeTag" => (notes' = notes /\ storage' = storage)]_vars

\* a duplicate was rejected while an edit was waiting for the debounce
C14_Witness ==
    /\ lastOp.op = "tagInput"
    /\ ~lastOp.flag
    /\ Trim(lastOp.arg) = <<"x">>
    /\ <<"x">> \in Range(tags)
    /\ timer # NoTimer
    /\ timer.n >= 1

\* the note matches the query: the lower-cased query is a substring of the lower-cased
\* title, content or of one lower-cased tag
Matches(note, q) ==
    \E str \in {note.title, note.content} \cup Range(note.tags) :
        \E a \in 1..(Len(str) + 1) : \E b \in 0..Len(str) :
            SubSeq(ToLowerCase(str), a, b) = ToLowerCase(q)

\* ret is the sub-sequence of ns, in the order of ns, of the entries at the positions idx
IsSubSequenceAt(ret, ns, idx) ==
    /\ Len(ret) = Cardinality(idx)
    /\ \A i \in idx : ret[Cardinality({j \in idx : j <= i})] = ns[i]

\* C15: with an empty query the displayed list is the collection; otherwise it is the
\* sub-sequence, in collection order, of exactly the notes that match the query.  On
\* [Alpha, Beta] the query "alpha" in any case gives both notes and "zzz" gives none.
C15_FilterCorrect ==
    probe.fn = "filter" =>
        /\ IF probe.query = <<>> THEN probe.ret = probe.notes
           ELSE IsSubSequenceAt(probe.ret, probe.notes,
                    {i \in 1..Len(probe.notes) : Matches(probe.notes[i], probe.query)})
        /\ (probe.notes = <<Alpha, Beta>> /\ ToLowerCase(probe.query) = <<"a", "l", "p", "h", "a">>)
                => probe.ret = <<Alpha, Beta>>
        /\ probe.query = <<"z", "z", "z">> => probe.ret = <<>>

\* an upper-case query that only the lower-case tag of the second of three notes matches
C15_Witness ==
    /\ probe.fn = "filter"
    /\ probe.query = <<"X">>
    /\ probe.notes = <<Beta, Alpha, Gamma>>
    /\ probe.ret = <<Alpha>>

\* C16: a note keeps its createdAt through every step, createdAt <= updatedAt <= the
\* clock in every note, a new note carries the time of its creation in both fields, and a
\* committed edit stamps the committed note's updatedAt with the time of the commit.
C16_Timestamps ==
    [][/\ \A i \in 1..Len(notes) : \A j \in 1..Len(notes') :
            notes[i].id = notes'[j].id => notes'[j].createdAt = notes[i].createdAt
       /\ \A j \in 1..Len(notes') :
            notes'[j].createdAt <= notes'[j].updatedAt /\ notes'[j].updatedAt <= now'
       /\ lastOp'.op = "create" => (notes'[1].createdAt = now /\ notes'[1].updatedAt = now)
       /\ (lastOp'.op = "fire" /\ lastOp'.flag)
            => NoteOf(notes', timer.note.id).updatedAt = now]_vars

\* a note created in this session was edited and committed later
C16_Witness ==
    /\ lastOp.op = "fire"
    /\ lastOp.flag
    /\ activeNoteId = Uuid(1)
    /\ HasNote(notes, Uuid(1))
    /\ ActiveNote.createdAt < ActiveNote.updatedAt
    /\ ActiveNote.updatedAt = now

\* Dirty: the buffer differs from the committed selected note
Dirty == mounted /\ BufferDirty

\* Clean by a commit: the debounce callback has just committed, and the committed note
\* equals the buffer
CleanByCommit ==
    /\ mounted
    /\ lastOp.op = "fire"
    /\ lastOp.flag
    /\ BufferIs(ActiveNote)

\* C17: from every Dirty state, unless the buffer is edited again or the selected note is
\* switched or deleted (the epoch flips), a commit eventually happens after which the
\* committed note's title, content and tags equal the buffer.
C17_DirtyLeadsToCommit ==
    \A e \in {0, 1} :
        (Dirty /\ epoch = e) ~> (CleanByCommit \/ epoch # e)

\* a commit at the end of a burst made the buffer clean while a call to the Text Service
\* was in flight
C17_Witness ==
    /\ CleanByCommit
    /\ lastOp.n = MaxBurst
    /\ Len(notes) = MaxNotes
    /\ isProcessingAI

\* C18: when a transform started on a non-empty selection [start, end) returns to the
\* note it was started on, the new content is the request-time content with exactly that
\* span replaced by the result.
C18_SpliceUsesCapturedOffsets ==
    [][\A c \in calls \ calls' :
        (/\ lastOp'.op = "aiDone"
         /\ lastOp'.why = "response"
         /\ c.live
         /\ c.noteId = activeNoteId
         /\ c.selected # <<>>)
            => content' = Substring(c.content, 0, c.start) \o lastOp'.arg
                            \o SubstringFrom(c.content, c.end)]_vars

\* the calls in flight that the mounted Editor started
SessionCalls == {c \in calls : c.live}

\* C19: at most one call of the mounted Editor is in flight, and its busy flag is set
\* exactly while one is.
C19_SingleFlight ==
    /\ Cardinality(SessionCalls) <= 1
    /\ mounted => (isProcessingAI <=> SessionCalls # {})

\* C20: nothing is selected exactly when the collection is empty, and a selected
\* identifier is that of a note in the collection.
C20_SelectionValid ==
    /\ activeNoteId = NULL <=> Len(notes) = 0
    /\ activeNoteId # NULL => HasNote(notes, activeNoteId)

\* the last note, one created in this session, has just been deleted
C20_Witness ==
    /\ lastOp.op = "delete"
    /\ lastOp.flag
    /\ nextUuid > 1
    /\ Len(notes) = 0
    /\ activeNoteId = NULL

\* title, content and tags of two notes are the same
SameText(a, b) == a.title = b.title /\ a.content = b.content /\ a.tags = b.tags

\* C21: a firing debounce timer commits only a real change. A commit alters title,
\* content or tags of the stored note; when the buffer equals the stored note at firing
\* time nothing is committed and updatedAt stays.
C21_CommitOnlyRealChange ==
    [][(lastOp'.op = "fire" /\ timer # NoTimer) =>
         /\ lastOp'.flag =>
                /\ HasNote(notes, timer.note.id)
                /\ HasNote(notes', timer.note.id)
                /\ ~SameText(NoteOf(notes', timer.note.id), NoteOf(notes, timer.note.id))
         /\ (mounted /\ BufferIs(ActiveNote)) =>
                /\ ~lastOp'.flag
                /\ notes' = notes
                /\ storage' = storage]_vars

\* the timer fired after a burst of edits that restored the committed values: nothing was
\* committed and the note keeps its updatedAt
C21_Witness ==
    /\ lastOp.op = "fire"
    /\ ~lastOp.flag
    /\ lastOp.n = MaxBurst
    /\ mounted
    /\ BufferIs(ActiveNote)
    /\ ActiveNote.updatedAt < now

\* the handleAIAction runs that end in the step; none for a run that ended before it
\* called the service, which is a run of the mounted Editor on the selected note
Ended == calls \ calls'

\* the content the run that ends in the step was started on
EndedContent == IF Ended = {} THEN content ELSE (CHOOSE c \in Ended : TRUE).content

\* a generate_title run ends while the note it was started on is still selected
TitleRunEnds ==
    /\ lastOp'.op = "aiDone"
    /\ lastOp'.act = "generate_title"
    /\ mounted
    /\ \A c \in Ended : c.noteId = activeNoteId

\* a generate_tags run ends with an empty list
EmptyTagsRunEnds ==
    /\ lastOp'.op = "aiDone"
    /\ lastOp'.act = "generate_tags"
    /\ ~lastOp'.alert
    /\ lastOp'.arg = <<>>

\* the default title has just been put in the buffer by a generate_title run
DefaultTitleApplied ==
    /\ mounted
    /\ lastOp.op = "aiDone"
    /\ lastOp.act = "generate_title"
    /\ ~lastOp.flag
    /\ lastOp.arg = DefaultTitle
    /\ title = DefaultTitle

\* the stored selected note has the default title
DefaultTitleStored == mounted /\ ActiveNote.title = DefaultTitle

\* the step leaves the returned string in the buffer title, the default title after blank
\* content or a failed call, and a timer that will commit it if the store differs
TitleSet ==
    /\ title' = lastOp'.arg
    /\ (Trim(EndedContent) = <<>> \/ lastOp'.why # "response") => (title' = DefaultTitle)
    /\ (title' # NoteOf(notes', activeNoteId').title) =>
           (/\ timer' # NoTimer
            /\ timer'.title = title'
            /\ timer'.note.id = activeNoteId'
            /\ Differs(timer'))

\* C22: a generate_title run that ends while its note is still selected sets the buffer
\* title to the returned string, whatever the buffer held; on blank content or a failed
\* call that string is the default title, and the debounce then commits it unless the
\* buffer or the selection changes first. A generate_tags run that yields an empty list
\* leaves the tag list, and the pending timer, as they were.
C22_TitleSetUnconditionally ==
    /\ [][(TitleRunEnds => TitleSet)
           /\ (EmptyTagsRunEnds => (tags' = tags /\ timer' = timer))]_vars
    /\ \A e \in {0, 1} :
           (DefaultTitleApplied /\ epoch = e) ~> (DefaultTitleStored \/ epoch # e)

\* a title typed on a note with blank content was replaced by the default title, and the
\* debounce committed the default title
C22_Witness ==
    /\ lastOp.op = "fire"
    /\ lastOp.flag
    /\ lastOp.n = MaxBurst
    /\ mounted
    /\ Trim(content) = <<>>
    /\ title = DefaultTitle
    /\ ActiveNote.title = DefaultTitle

====
